---- MODULE Spec2Model ----
(***************************************************************************)
(* Model of the paper-search aggregation pipeline:                         *)
(*   final_paper_search.py  PaperSearchClient (client-side merge)          *)
(*   http_mcp_server.py     POST /search/multi (server-side merge)         *)
(* Strings are sequences of one-character strings, Python values are       *)
(* tagged records, dicts are functions from a fixed key set to values.     *)
(***************************************************************************)
EXTENDS Integers, Sequences, FiniteSets, TLC

(***************************************************************************)
(* Characters and strings                                                  *)
(***************************************************************************)

\* The characters used by the model, in code point order.
Alphabet ==
  << " ", "!", ",", "-", "0", "1", "2", "3", "9", ";",
     "A", "B", "Q", "T", "_", "a", "b", "e", "n", "o", "q", "t" >>

Ord(c) == CHOOSE i \in 1..Len(Alphabet) : Alphabet[i] = c

IsDigit(c) == c \in {"0", "1", "2", "3", "9"}

DigitVal(c) ==
  CASE c = "0" -> 0 [] c = "1" -> 1 [] c = "2" -> 2 [] c = "3" -> 3 [] c = "9" -> 9

IsUpper(c) == c \in {"A", "B", "Q", "T"}

IsLower(c) == c \in {"a", "b", "e", "n", "o", "q", "t"}

\* str.isalnum() of one character
IsAlnum(c) == IsDigit(c) \/ IsUpper(c) \/ IsLower(c)

\* str.lower() of one character
LowerChar(c) ==
  CASE c = "A" -> "a" [] c = "B" -> "b" [] c = "Q" -> "q" [] c = "T" -> "t"
    [] OTHER -> c

\* str.lower()
Lower(s) == [i \in 1..Len(s) |-> LowerChar(s[i])]

\* c in s
Contains(s, c) == \E i \in 1..Len(s) : s[i] = c

\* str.strip(): leading and trailing whitespace removed
Strip(s) ==
  LET keep == {i \in 1..Len(s) : s[i] # " "}
  IN  IF keep = {} THEN << >>
      ELSE LET lo == CHOOSE i \in keep : \A j \in keep : i <= j
               hi == CHOOSE i \in keep : \A j \in keep : j <= i
           IN  SubSeq(s, lo, hi)

\* s.split(c)[0]: the part of s before the first c (all of s when c is absent)
SplitFirst(s, c) ==
  IF Contains(s, c)
  THEN LET p == CHOOSE i \in 1..Len(s) : s[i] = c /\ \A j \in 1..(i - 1) : s[j] # c
       IN  SubSeq(s, 1, p - 1)
  ELSE s

\* s.split(c): the segments of s between the occurrences of c
RECURSIVE Split(_, _)
Split(s, c) ==
  IF Contains(s, c)
  THEN LET p == Len(SplitFirst(s, c)) + 1
       IN  << SplitFirst(s, c) >> \o Split(SubSeq(s, p + 1, Len(s)), c)
  ELSE << s >>

\* ''.join(ch.lower() for ch in s if ch.isalnum())
AlnumLower(s) == Lower(SelectSeq(s, IsAlnum))

\* str.isdigit(): non-empty and every character a digit
IsDigitStr(s) == s # << >> /\ \A i \in 1..Len(s) : IsDigit(s[i])

\* int(s) of a digit string
RECURSIVE ToInt(_)
ToInt(s) ==
  IF s = << >> THEN 0
  ELSE 10 * ToInt(SubSeq(s, 1, Len(s) - 1)) + DigitVal(s[Len(s)])

\* a < b for Python strings (lexicographic by code point)
RECURSIVE StrLess(_, _)
StrLess(a, b) ==
  IF b = << >> THEN FALSE
  ELSE IF a = << >> THEN TRUE
  ELSE IF Head(a) = Head(b) THEN StrLess(Tail(a), Tail(b))
  ELSE Ord(Head(a)) < Ord(Head(b))

\* ''.join(parts)
RECURSIVE Join(_)
Join(parts) == IF parts = << >> THEN << >> ELSE Head(parts) \o Join(Tail(parts))

(***************************************************************************)
(* Python values and dicts                                                 *)
(***************************************************************************)

VAbsent   == [t |-> "absent", s |-> << >>, n |-> 0, l |-> << >>]
VNone     == [t |-> "none",   s |-> << >>, n |-> 0, l |-> << >>]
VStr(x)   == [t |-> "str",    s |-> x,     n |-> 0, l |-> << >>]
VInt(k)   == [t |-> "int",    s |-> << >>, n |-> k, l |-> << >>]
VList(xs) == [t |-> "list",   s |-> << >>, n |-> 0, l |-> xs]

\* bool(v)
Truthy(v) ==
  CASE v.t = "str"  -> v.s # << >>
    [] v.t = "int"  -> v.n # 0
    [] v.t = "list" -> v.l # << >>
    [] OTHER        -> FALSE

\* a or b
Or(a, b) == IF Truthy(a) THEN a ELSE b

Keys ==
  { "title", "authors", "abstract", "published_date", "url", "pdf_url",
    "source", "citations", "paper_id", "year", "venue", "citedby" }

EmptyDict == [k \in Keys |-> VAbsent]

\* d.get(k, default)
Get(d, k, default) == IF d[k].t = "absent" THEN default ELSE d[k]

\* an element of an adapter's result list: a dict, or something that is not one
Item(d)  == [isdict |-> TRUE, d |-> d]
NotADict == [isdict |-> FALSE, d |-> EmptyDict]

(***************************************************************************)
(* Normalizers                                                             *)
(***************************************************************************)

\* [a.strip() for a in authors_raw.split(sep) if a.strip()]
StripNonEmpty(parts) ==
  LET stripped == [i \in 1..Len(parts) |-> Strip(parts[i])]
      kept     == SelectSeq(stripped, LAMBDA a : a # << >>)
  IN  [i \in 1..Len(kept) |-> VStr(kept[i])]

\* the author parsing of the client's standardize_paper
ClientAuthors(authors_raw) ==
  IF authors_raw.t = "str"
  THEN IF Contains(authors_raw.s, ";")
       THEN VList(StripNonEmpty(Split(authors_raw.s, ";")))
       ELSE IF Contains(authors_raw.s, ",") /\ Len(Split(authors_raw.s, ",")) > 2
       THEN VList(StripNonEmpty(Split(authors_raw.s, ",")))
       ELSE IF authors_raw.s # << >> THEN VList(<< authors_raw >>) ELSE VList(<< >>)
  ELSE IF authors_raw.t = "list" THEN authors_raw
  ELSE VList(<< >>)

\* the author parsing of the server's standardize_paper_format
ServerAuthors(authors_raw) ==
  IF authors_raw.t = "str"
  THEN IF Contains(authors_raw.s, ";")
       THEN VList(StripNonEmpty(Split(authors_raw.s, ";")))
       ELSE IF Contains(authors_raw.s, ",")
       THEN VList(StripNonEmpty(Split(authors_raw.s, ",")))
       ELSE IF authors_raw.s # << >> THEN VList(<< authors_raw >>) ELSE VList(<< >>)
  ELSE IF authors_raw.t = "list" THEN authors_raw
  ELSE VList(<< >>)

\* the year substring of a date string
YearPart(s) ==
  IF Contains(s, "T") THEN SplitFirst(SplitFirst(s, "T"), "-")
  ELSE IF Contains(s, "-") THEN SplitFirst(s, "-")
  ELSE IF Len(s) >= 4 THEN SubSeq(s, 1, 4)
  ELSE << >>

MinYear == 1900
MaxYear == 2030

\* as PublishedDate, but falling back to an already extracted 'year'
PublishedDateOrYear(paper) ==
  Or(Get(paper, "published_date", VStr(<< >>)), Get(paper, "year", VStr(<< >>)))

\* paper.get('published_date', '')
PublishedDate(paper) == Get(paper, "published_date", VStr(<< >>))

\* the year extraction and validation of the client's standardize_paper
ClientYear(published_date) ==
  IF ~Truthy(published_date) THEN VStr(<< >>)
  ELSE IF published_date.t # "str"
  THEN VStr(<< >>)   \* 'T' in <int> raises, a list slice has no isdigit: except -> ''
  ELSE LET year == YearPart(published_date.s)
       IN  IF year # << >>
              /\ (~IsDigitStr(year) \/ ToInt(year) < MinYear \/ ToInt(year) > MaxYear)
           THEN VStr(<< >>)
           ELSE VStr(year)

\* the year extraction of the server's standardize_paper_format (no validation)
ServerYear(published_date) ==
  IF ~Truthy(published_date) THEN VStr(<< >>)
  ELSE IF published_date.t = "str" THEN VStr(YearPart(published_date.s))
  ELSE IF published_date.t = "list"
  THEN IF Len(published_date.l) >= 4 THEN VList(SubSeq(published_date.l, 1, 4))
       ELSE VStr(<< >>)
  ELSE VStr(<< >>)   \* 'T' in <int> raises TypeError: except -> ''

\* title.strip() if title else ''
StripOrEmpty(v) == IF Truthy(v) THEN VStr(Strip(v.s)) ELSE VStr(<< >>)

\* the dict both normalizers return
Normalized(title, authors, abstract, year, url, venue, citedby, paper_id) ==
  [k \in Keys |->
     CASE k = "title"    -> title
       [] k = "authors"  -> authors
       [] k = "abstract" -> abstract
       [] k = "year"     -> year
       [] k = "url"      -> url
       [] k = "venue"    -> venue
       [] k = "citedby"  -> citedby
       [] k = "paper_id" -> paper_id
       [] OTHER          -> VAbsent]

Raised == [raised |-> TRUE, d |-> EmptyDict]
Returned(d) == [raised |-> FALSE, d |-> d]

\* PaperSearchClient.standardize_paper(paper, source)
standardize_paper(item, source) ==
  IF ~item.isdict THEN Raised   \* paper.get: AttributeError
  ELSE LET paper == item.d
       IN  Returned(Normalized(
             StripOrEmpty(Or(Get(paper, "title", VNone), VStr(<< >>))),
             ClientAuthors(Get(paper, "authors", VStr(<< >>))),
             StripOrEmpty(Or(Get(paper, "abstract", VNone), VStr(<< >>))),
             ClientYear(PublishedDate(paper)),
             Or(Or(Get(paper, "url", VNone), Get(paper, "pdf_url", VNone)), VStr(<< >>)),
             Or(Get(paper, "source", VNone), VStr(source)),
             Get(paper, "citations", VInt(0)),
             Or(Get(paper, "paper_id", VNone), VStr(<< >>))))

\* standardize_paper_format(paper, source) of the server
standardize_paper_format(item, source) ==
  IF ~item.isdict THEN Raised
  ELSE LET paper == item.d
       IN  Returned(Normalized(
             StripOrEmpty(Or(Get(paper, "title", VNone), VStr(<< >>))),
             ServerAuthors(Get(paper, "authors", VStr(<< >>))),
             StripOrEmpty(Or(Get(paper, "abstract", VNone), VStr(<< >>))),
             ServerYear(PublishedDate(paper)),
             Or(Or(Get(paper, "url", VNone), Get(paper, "pdf_url", VNone)), VStr(<< >>)),
             Or(Get(paper, "source", VNone), VStr(source)),
             Get(paper, "citations", VInt(0)),
             Or(Get(paper, "paper_id", VNone), VStr(<< >>))))

(***************************************************************************)
(* Deduplication keys                                                      *)
(***************************************************************************)

\* hashlib.md5(content).hexdigest(), idealised as collision-free: the digest
\* of a content is the content under a tag
Md5(content) == << "md5" >> \o content

\* sorted(xs) for at most two strings
Sorted2(xs) ==
  IF Len(xs) = 2 /\ StrLess(xs[2], xs[1]) THEN << xs[2], xs[1] >> ELSE xs

\* authors[:2]
FirstTwo(l) == SubSeq(l, 1, IF Len(l) < 2 THEN Len(l) ELSE 2)

\* PaperSearchClient.generate_paper_hash(title, authors); iterating an author
\* that is not a string raises TypeError
HashRaises(authors) == \E i \in 1..Len(FirstTwo(authors)) : authors[i].t # "str"

generate_paper_hash(title, authors) ==
  LET two == FirstTwo(authors)
      normalized_title   == AlnumLower(title)
      normalized_authors == Join(Sorted2([i \in 1..Len(two) |-> AlnumLower(two[i].s)]))
  IN  Md5(normalized_title \o << "_" >> \o normalized_authors)

\* the server's title = paper.get('title', '').strip().lower(); None has no strip
ServerTitleRaises(paper) == Get(paper, "title", VStr(<< >>)).t # "str"

ServerTitle(paper) == Lower(Strip(Get(paper, "title", VStr(<< >>)).s))

\* the server's first_author; authors[0].strip() raises when authors[0] is no string
FirstAuthorRaises(paper) ==
  LET authors == Get(paper, "authors", VStr(<< >>))
  IN  authors.t = "list" /\ authors.l # << >> /\ authors.l[1].t # "str"

FirstAuthor(paper) ==
  LET authors == Get(paper, "authors", VStr(<< >>))
  IN  IF authors.t = "str"
      THEN IF authors.s # << >>
           THEN Lower(Strip(SplitFirst(SplitFirst(authors.s, ";"), ",")))
           ELSE << >>
      ELSE IF authors.t = "list"
      THEN IF authors.l # << >> THEN Lower(Strip(authors.l[1].s)) ELSE << >>
      ELSE << >>

\* dedup_key = f"{title}_{first_author}"
DedupKey(paper) == ServerTitle(paper) \o << "_" >> \o FirstAuthor(paper)

(***************************************************************************)
(* Ranker / limiter                                                        *)
(***************************************************************************)

\* the sort key x.get('year', '0')
YearKey(x) == Get(x, "year", VStr(<< "0" >>)).s

\* all_papers.sort(key=..., reverse=True): stable, equal keys keep their order
RECURSIVE SortByYearDesc(_)
SortByYearDesc(all) ==
  IF all = << >> THEN << >>
  ELSE LET x    == all[Len(all)]
           rest == SortByYearDesc(SubSeq(all, 1, Len(all) - 1))
           \* x goes before the first element whose key is smaller than its own
           before == {i \in 1..Len(rest) : StrLess(YearKey(rest[i]), YearKey(x))}
           p == IF before = {} THEN Len(rest) + 1
                ELSE CHOOSE i \in before : \A j \in before : i <= j
       IN  SubSeq(rest, 1, p - 1) \o << x >> \o SubSeq(rest, p, Len(rest))

\* xs[:n]
Take(xs, n) ==
  IF n >= 0 THEN SubSeq(xs, 1, IF n < Len(xs) THEN n ELSE Len(xs))
  ELSE SubSeq(xs, 1, IF Len(xs) + n > 0 THEN Len(xs) + n ELSE 0)

\* sort by year, newest first, then limit to the requested number
RankAndLimit(all, total) == Take(SortByYearDesc(all), total)

(***************************************************************************)
(* Platform adapters and the two merge loops                               *)
(***************************************************************************)

arxiv  == << "a", "r", "x", "i", "v" >>
pubmed == << "p", "u", "b", "m", "e", "d" >>
bogus  == << "b", "o", "g", "u", "s" >>

\* self.platforms / PLATFORM_FUNCTIONS.keys(), cut to its first two platforms
PLATFORMS == << arxiv, pubmed >>

\* what one adapter call gives: a list of records ("list"), an exception
\* ("exc"), an HTTP status other than 200 ("status", its body in recs) or a
\* value that is no list ("nonseq")
Result(kind, recs) == [kind |-> kind, recs |-> recs]

\* as search_platform, without the test of the status code
search_platform_any_status(result) ==
  IF result.kind \in {"list", "status"} THEN result.recs ELSE << >>

\* PaperSearchClient.search_platform: everything but a 200 with a list of
\* papers ends as []
search_platform(result) == IF result.kind = "list" THEN result.recs ELSE << >>

\* the server's isinstance(result, Exception) / isinstance(result, list) checks
ServerUsable(result) == result.kind = "list"

MinPerPlatform == 10

\* papers_per_platform = max(10, total_papers // len(platforms))
PapersPerPlatform(total_papers, n) ==
  IF total_papers \div n > MinPerPlatform THEN total_papers \div n ELSE MinPerPlatform

\* as ClientAccept, without the test of the title
ClientAcceptAnyTitle(paper_hash, seen, title) == paper_hash \notin seen

\* the client's test before a record is added
ClientAccept(paper_hash, seen, title) == paper_hash \notin seen /\ title # << >>

\* the server's test before a record is added
ServerAccept(dedup_key, seen, title) == dedup_key \notin seen /\ title # << >>

\* one pass of the client's loop body over a record; st = [all, seen, raised]
ClientProcess(st, item, platform) ==
  LET std == standardize_paper(item, platform)
  IN  IF std.raised THEN st                                    \* except: continue
      ELSE IF HashRaises(std.d["authors"].l) THEN st           \* except: continue
      ELSE LET title == std.d["title"].s
               paper_hash == generate_paper_hash(title, std.d["authors"].l)
           IN  IF ClientAccept(paper_hash, st.seen, title)
               THEN [st EXCEPT !.all = Append(@, std.d), !.seen = @ \cup {paper_hash}]
               ELSE st

\* one pass of the server's loop body over a record
ServerProcess(st, item, platform) ==
  IF ~item.isdict THEN st
  ELSE IF ServerTitleRaises(item.d) \/ FirstAuthorRaises(item.d)
  THEN [st EXCEPT !.raised = TRUE]                             \* AttributeError
  ELSE IF ServerAccept(DedupKey(item.d), st.seen, ServerTitle(item.d))
  THEN [st EXCEPT !.all = Append(@, standardize_paper_format(item, platform).d),
                  !.seen = @ \cup {DedupKey(item.d)}]
  ELSE st

NoResponse == [status |-> "none", papers |-> << >>]
Ok(papers) == [status |-> "ok", papers |-> papers]
Error400   == [status |-> "error400", papers |-> << >>]
Error500   == [status |-> "error500", papers |-> << >>]

\* the records of the client's loop for one platform, as a fold
RECURSIVE ClientMerge(_, _, _)
ClientMerge(st, recs, platform) ==
  IF recs = << >> THEN st
  ELSE ClientMerge(ClientProcess(st, Head(recs), platform), Tail(recs), platform)

\* search_all_platforms from platform i on, as a fold
RECURSIVE ClientRunFrom(_, _, _, _)
ClientRunFrom(st, pls, results, i) ==
  IF i > Len(pls) THEN st
  ELSE ClientRunFrom(ClientMerge(st, search_platform(results[i]), pls[i]),
                     pls, results, i + 1)

\* what search_all_platforms returns for a seen set and the adapters' results
ClientOutcome(seen, pls, results, total_papers) ==
  Ok(RankAndLimit(
       ClientRunFrom([all |-> << >>, seen |-> seen, raised |-> FALSE], pls, results, 1).all,
       total_papers))

RECURSIVE ServerMerge(_, _, _)
ServerMerge(st, recs, platform) ==
  IF recs = << >> \/ st.raised THEN st
  ELSE ServerMerge(ServerProcess(st, Head(recs), platform), Tail(recs), platform)

RECURSIVE ServerRunFrom(_, _, _, _)
ServerRunFrom(st, pls, results, i) ==
  IF i > Len(pls) \/ st.raised THEN st
  ELSE ServerRunFrom(
         IF ServerUsable(results[i]) THEN ServerMerge(st, results[i].recs, pls[i]) ELSE st,
         pls, results, i + 1)

\* the response of POST /search/multi for the results in task order
ServerOutcome(pls, results, total_papers) ==
  LET st == ServerRunFrom([all |-> << >>, seen |-> {}, raised |-> FALSE], pls, results, 1)
  IN  IF st.raised THEN Error500 ELSE Ok(RankAndLimit(st.all, total_papers))

\* as gather, but with the results in the order of completion
gather_as_completed(n, done) == [i \in 1..n |-> done[i].result]

\* asyncio.gather: the results in the order of the awaitables, whatever the
\* order in which they completed
gather(n, done) ==
  [i \in 1..n |-> (CHOOSE e \in {done[j] : j \in 1..Len(done)} : e.task = i).result]

(***************************************************************************)
(* Inputs                                                                  *)
(***************************************************************************)

\* a raw record with the given title, authors and published_date
Paper(title, authors, date) ==
  [k \in Keys |->
     CASE k = "title"          -> title
       [] k = "authors"        -> authors
       [] k = "published_date" -> date
       [] OTHER                -> VAbsent]

AB == VStr(<< "A", ";", "B" >>)

\* "Qe" by A;B, 2023-01
PaperQe      == Item(Paper(VStr(<< "Q", "e" >>), AB, VStr(<< "2", "0", "2", "3", "-", "0", "1" >>)))
\* "qe!" by A;B, 1999: the same paper under another spelling of the title
PaperQeBang  == Item(Paper(VStr(<< "q", "e", "!" >>), AB, VStr(<< "1", "9", "9", "9" >>)))
\* a title of one blank
PaperBlank   == Item(Paper(VStr(<< " " >>), AB, VStr(<< "2", "0", "2", "3", "-", "0", "1" >>)))
\* "title": null
PaperNoTitle == Item(Paper(VNone, AB, VStr(<< "2", "0", "2", "3", "-", "0", "1" >>)))
\* "authors": [null]
PaperNullAuthor == Item(Paper(VStr(<< "T" >>), VList(<< VNone >>), VAbsent))
\* published_date 999-01
PaperOld     == Item(Paper(VStr(<< "B" >>), VStr(<< "A" >>), VStr(<< "9", "9", "9", "-", "0", "1" >>)))
\* published_date 02023-01
PaperZero    == Item(Paper(VStr(<< "A", "b" >>), VStr(<< "B" >>),
                           VStr(<< "0", "2", "0", "2", "3", "-", "0", "1" >>)))

\* the records an adapter may return
Pool ==
  { PaperQe, PaperQeBang, PaperBlank, PaperNoTitle, NotADict, PaperNullAuthor,
    PaperOld, PaperZero }

\* the most records one adapter call returns
MaxRecs == 1

\* the most search_all_platforms calls on one client
MaxRuns == 2

RecLists == UNION {[1..k -> Pool] : k \in 0..MaxRecs}

\* total_papers of a request
Totals == {1, 50}

\* what POST /search/{platform} can give the client
ClientResults ==
  {Result("list", recs) : recs \in RecLists}
    \cup {Result("exc", << >>), Result("status", << PaperQe >>), Result("nonseq", << >>)}

\* what a search_<platform> coroutine can give the server
ServerResults ==
  {Result("list", recs) : recs \in RecLists}
    \cup {Result("exc", << >>), Result("nonseq", << >>)}

\* request.platforms: absent, or a list of names
PlatformChoices == {<< >>, << arxiv >>, << bogus >>}

(***************************************************************************)
(* State                                                                   *)
(***************************************************************************)

VARIABLES
  side,         \* "client": a PaperSearchClient; "server": the HTTP service
  pc,           \* where the run is
  runs,         \* search_all_platforms calls made on the client so far
  total,        \* total_papers of the run
  platforms,    \* the platforms of the run
  adapter,      \* what each platform's adapter gives in this run
  arrived,      \* server: the completed tasks, in completion order
  results,      \* server: what gather returned
  pidx,         \* index of the platform being merged
  papers,       \* the records of that platform still to be merged
  all_papers,   \* the merged records
  seen_papers,  \* the keys seen (client: self.seen_papers, server: the local set)
  response,     \* what the run returned
  n_pc, n_side, n_source, n_raw, n_out, n_again   \* the normalizer on its own

aggVars  == << side, pc, runs, total, platforms, adapter, arrived, results, pidx,
               papers, all_papers, seen_papers, response >>
normVars == << n_pc, n_side, n_source, n_raw, n_out, n_again >>
vars     == << side, pc, runs, total, platforms, adapter, arrived, results, pidx,
               papers, all_papers, seen_papers, response,
               n_pc, n_side, n_source, n_raw, n_out, n_again >>

NormIdle ==
  /\ n_pc = "off" /\ n_side = "none" /\ n_source = << >>
  /\ n_raw = EmptyDict /\ n_out = Raised /\ n_again = Raised

AggIdle ==
  /\ pc = "idle" /\ runs = 0 /\ total = 0 /\ platforms = << >> /\ adapter = << >>
  /\ arrived = << >> /\ results = << >> /\ pidx = 0 /\ papers = << >>
  /\ all_papers = << >> /\ seen_papers = {} /\ response = NoResponse

Init ==
  /\ side \in {"client", "server"}
  /\ AggIdle
  /\ NormIdle

(***************************************************************************)
(* The client: PaperSearchClient.search_all_platforms                      *)
(***************************************************************************)

\* a call of search_all_platforms(query, total_papers) begins
ClientStart ==
  /\ side = "client" /\ pc = "idle" /\ runs < MaxRuns
  /\ \E t \in Totals, a \in [1..Len(PLATFORMS) -> ClientResults] :
       /\ \A i \in 1..Len(PLATFORMS) :
            Len(a[i].recs) <= PapersPerPlatform(t, Len(PLATFORMS))
       /\ total' = t
       /\ adapter' = a
  /\ platforms' = PLATFORMS
  /\ runs' = runs + 1
  /\ all_papers' = << >>
  /\ pidx' = 1
  /\ papers' = << >>
  /\ pc' = "client_search"
  /\ response' = NoResponse
  /\ UNCHANGED << side, arrived, results, seen_papers >>
  /\ UNCHANGED normVars

\* papers = self.search_platform(platform, query, papers_per_platform)
ClientSearchPlatform ==
  /\ pc = "client_search" /\ pidx <= Len(platforms)
  /\ LET found == search_platform(adapter[pidx])
     IN  /\ papers' = found
         /\ pidx' = IF found = << >> THEN pidx + 1 ELSE pidx
         /\ pc' = IF found = << >> THEN "client_search" ELSE "client_papers"
  /\ UNCHANGED << side, runs, total, platforms, adapter, arrived, results,
                  all_papers, seen_papers, response >>
  /\ UNCHANGED normVars

\* the body of "for paper in papers" for the next record
ClientProcessPaper ==
  /\ pc = "client_papers" /\ papers # << >>
  /\ LET st == ClientProcess([all |-> all_papers, seen |-> seen_papers, raised |-> FALSE],
                             Head(papers), platforms[pidx])
     IN  /\ all_papers' = st.all
         /\ seen_papers' = st.seen
  /\ papers' = Tail(papers)
  /\ pidx' = IF Tail(papers) = << >> THEN pidx + 1 ELSE pidx
  /\ pc' = IF Tail(papers) = << >> THEN "client_search" ELSE "client_papers"
  /\ UNCHANGED << side, runs, total, platforms, adapter, arrived, results, response >>
  /\ UNCHANGED normVars

\* the sort, the slice and the return
ClientFinish ==
  /\ pc = "client_search" /\ pidx > Len(platforms)
  /\ response' = Ok(RankAndLimit(all_papers, total))
  /\ pc' = "done"
  /\ UNCHANGED << side, runs, total, platforms, adapter, arrived, results, pidx,
                  papers, all_papers, seen_papers >>
  /\ UNCHANGED normVars

(***************************************************************************)
(* The server: POST /search/multi                                          *)
(***************************************************************************)

\* a request arrives: the platforms are validated and one task per platform
\* is created
ServerRequest ==
  /\ side = "server" /\ pc = "idle"
  /\ \E t \in Totals, choice \in PlatformChoices :
       LET pls == IF choice = << >> THEN PLATFORMS ELSE choice
           invalid == {i \in 1..Len(pls) : \A j \in 1..Len(PLATFORMS) : pls[i] # PLATFORMS[j]}
       IN  /\ total' = t
           /\ platforms' = pls
           /\ IF invalid # {}
              THEN /\ response' = Error400
                   /\ pc' = "done"
                   /\ adapter' = << >>
              ELSE /\ response' = NoResponse
                   /\ pc' = "server_wait"
                   /\ \E a \in [1..Len(pls) -> ServerResults] :
                        /\ \A i \in 1..Len(pls) :
                             Len(a[i].recs) <= PapersPerPlatform(t, Len(pls))
                        /\ adapter' = a
  /\ all_papers' = << >>
  /\ seen_papers' = {}
  /\ arrived' = << >>
  /\ results' = << >>
  /\ pidx' = 0
  /\ papers' = << >>
  /\ UNCHANGED << side, runs >>
  /\ UNCHANGED normVars

\* one of the concurrently running platform calls completes
TaskComplete ==
  /\ pc = "server_wait"
  /\ \E i \in 1..Len(platforms) :
       /\ \A j \in 1..Len(arrived) : arrived[j].task # i
       /\ arrived' = Append(arrived, [task |-> i, result |-> adapter[i]])
  /\ UNCHANGED << side, pc, runs, total, platforms, adapter, results, pidx, papers,
                  all_papers, seen_papers, response >>
  /\ UNCHANGED normVars

\* results = await asyncio.gather(...), once every task has completed
ServerGather ==
  /\ pc = "server_wait" /\ Len(arrived) = Len(platforms)
  /\ results' = gather(Len(platforms), arrived)
  /\ pidx' = 1
  /\ pc' = "server_result"
  /\ UNCHANGED << side, runs, total, platforms, adapter, arrived, papers, all_papers,
                  seen_papers, response >>
  /\ UNCHANGED normVars

\* the head of "for i, result in enumerate(results)": failed platforms are skipped
ServerNextResult ==
  /\ pc = "server_result" /\ pidx <= Len(platforms)
  /\ LET found == IF ServerUsable(results[pidx]) THEN results[pidx].recs ELSE << >>
     IN  /\ papers' = found
         /\ pidx' = IF found = << >> THEN pidx + 1 ELSE pidx
         /\ pc' = IF found = << >> THEN "server_result" ELSE "server_papers"
  /\ UNCHANGED << side, runs, total, platforms, adapter, arrived, results,
                  all_papers, seen_papers, response >>
  /\ UNCHANGED normVars

\* the body of "for paper in result" for the next record; an exception in it
\* ends the request with HTTP 500
ServerProcessPaper ==
  /\ pc = "server_papers" /\ papers # << >>
  /\ LET st == ServerProcess([all |-> all_papers, seen |-> seen_papers, raised |-> FALSE],
                             Head(papers), platforms[pidx])
     IN  IF st.raised
         THEN /\ response' = Error500
              /\ pc' = "done"
              /\ UNCHANGED << pidx, papers, all_papers, seen_papers >>
         ELSE /\ all_papers' = st.all
              /\ seen_papers' = st.seen
              /\ papers' = Tail(papers)
              /\ pidx' = IF Tail(papers) = << >> THEN pidx + 1 ELSE pidx
              /\ pc' = IF Tail(papers) = << >> THEN "server_result" ELSE "server_papers"
              /\ UNCHANGED response
  /\ UNCHANGED << side, runs, total, platforms, adapter, arrived, results >>
  /\ UNCHANGED normVars

\* the sort, the slice and the response
ServerFinish ==
  /\ pc = "server_result" /\ pidx > Len(platforms)
  /\ response' = Ok(RankAndLimit(all_papers, total))
  /\ pc' = "done"
  /\ UNCHANGED << side, runs, total, platforms, adapter, arrived, results, pidx,
                  papers, all_papers, seen_papers >>
  /\ UNCHANGED normVars

\* the run has returned: its locals are gone; the client object keeps
\* self.seen_papers, the server keeps nothing
Return ==
  /\ pc = "done"
  /\ pc' = "idle"
  /\ total' = 0 /\ platforms' = << >> /\ adapter' = << >> /\ arrived' = << >>
  /\ results' = << >> /\ pidx' = 0 /\ papers' = << >> /\ all_papers' = << >>
  /\ response' = NoResponse
  /\ seen_papers' = IF side = "client" THEN seen_papers ELSE {}
  /\ UNCHANGED << side, runs >>
  /\ UNCHANGED normVars

Next ==
  \/ ClientStart
  \/ ClientSearchPlatform
  \/ ClientProcessPaper
  \/ ClientFinish
  \/ ServerRequest
  \/ TaskComplete
  \/ ServerGather
  \/ ServerNextResult
  \/ ServerProcessPaper
  \/ ServerFinish
  \/ Return

Spec == Init /\ [][Next]_vars

(***************************************************************************)
(* The normalizers on their own                                            *)
(***************************************************************************)

NTitles == {VAbsent, VNone, VStr(<< >>), VStr(<< " ", "Q", "e", " " >>)}

NAuthors ==
  { VAbsent, VNone,
    VStr(<< "A", ";", "B" >>),
    VStr(<< "A", ",", " ", "B" >>),
    VStr(<< " ", "A", ",", "B", ",", "Q" >>),
    VStr(<< " ", "A" >>),
    VList(<< VStr(<< "A" >>), VNone >>),
    VList(<< >>) }

NDates ==
  { VAbsent, VNone, VStr(<< >>),
    VStr(<< "2", "0", "2", "3", "-", "0", "1" >>),
    VStr(<< "2", "0", "2", "3", "-", "0", "1", "T", "1", "0" >>),
    VStr(<< "2", "0", "2", "3" >>),
    VStr(<< "1", "8", "9", "9", "-", "0", "1" >>),
    VStr(<< "2", "0", "3", "1", "-", "0", "1" >>),
    VStr(<< "n", "o", "t", "-", "a" >>),
    VStr(<< "0", "2", "0", "2", "3", "-", "0", "1" >>),
    VStr(<< "9", "9", "9" >>),
    VInt(2023),
    VList(<< VStr(<< "2" >>), VStr(<< "0" >>), VStr(<< "2" >>), VStr(<< "3" >>) >>) }

NSources == {VAbsent, VNone, VStr(<< "Q" >>)}

NCitations == {VAbsent, VNone, VInt(3)}

\* url, pdf_url, abstract and paper_id together
NOthers ==
  { << VAbsent, VAbsent, VAbsent, VAbsent >>,
    << VNone, VStr(<< "b" >>), VNone, VNone >>,
    << VStr(<< "a" >>), VStr(<< "b" >>), VStr(<< " ", "a", " " >>), VStr(<< "1" >>) >> }

RawPaper(title, authors, date, source, citations, others) ==
  [k \in Keys |->
     CASE k = "title"          -> title
       [] k = "authors"        -> authors
       [] k = "published_date" -> date
       [] k = "source"         -> source
       [] k = "citations"      -> citations
       [] k = "url"            -> others[1]
       [] k = "pdf_url"        -> others[2]
       [] k = "abstract"       -> others[3]
       [] k = "paper_id"       -> others[4]
       [] OTHER                -> VAbsent]

NormRaws ==
  { RawPaper(ti, au, da, so, ci, ot) :
      ti \in NTitles, au \in NAuthors, da \in NDates, so \in NSources,
      ci \in NCitations, ot \in NOthers }

\* the normalizer of a side
Normalize(which, item, source) ==
  IF which = "client" THEN standardize_paper(item, source)
  ELSE standardize_paper_format(item, source)

InitNorm ==
  /\ side = "none"
  /\ AggIdle
  /\ n_pc = "raw"
  /\ n_side \in {"client", "server"}
  /\ n_source = arxiv
  /\ n_raw \in NormRaws
  /\ n_out = Raised
  /\ n_again = Raised

\* a raw record is normalized
Standardize ==
  /\ n_pc = "raw"
  /\ n_out' = Normalize(n_side, Item(n_raw), n_source)
  /\ n_pc' = "normalized"
  /\ UNCHANGED << n_side, n_source, n_raw, n_again >>
  /\ UNCHANGED aggVars

\* the normalized record is normalized again, as if it were a raw record
Restandardize ==
  /\ n_pc = "normalized" /\ ~n_out.raised
  /\ n_again' = Normalize(n_side, Item(n_out.d), n_source)
  /\ n_pc' = "again"
  /\ UNCHANGED << n_side, n_source, n_raw, n_out >>
  /\ UNCHANGED aggVars

NextNorm == Standardize \/ Restandardize

SpecNorm == InitNorm /\ [][NextNorm]_vars

(***************************************************************************)
(* Properties of the normalizers (checked under SpecNorm)                  *)
(***************************************************************************)

\* '' or four digits with a value in [1900, 2030]
ValidYear(y) ==
  /\ y.t = "str"
  /\ \/ y.s = << >>
     \/ /\ Len(y.s) = 4
        /\ IsDigitStr(y.s)
        /\ ToInt(y.s) >= MinYear
        /\ ToInt(y.s) <= MaxYear

\* C5: whatever published_date is, the normalizer returns, and the year of the
\* normalized record is '' or a string of exactly 4 digits in [1900, 2030]
C5_YearInvariant ==
  n_pc \in {"normalized", "again"} => ~n_out.raised /\ ValidYear(n_out.d["year"])

IsStr(v) == v.t = "str"

TrimmedAuthors(v) ==
  /\ v.t = "list"
  /\ \A i \in 1..Len(v.l) :
       v.l[i].t = "str" /\ v.l[i].s # << >> /\ Strip(v.l[i].s) = v.l[i].s

\* C6: the normalized record has all eight fields, none null, the six text
\* fields strings, authors a list of trimmed non-empty strings, citedby an
\* integer that is 0 when citations is absent or null
C6_TypingInvariant ==
  n_pc \in {"normalized", "again"} =>
    /\ ~n_out.raised
    /\ \A k \in {"title", "abstract", "year", "url", "venue", "paper_id"} : IsStr(n_out.d[k])
    /\ TrimmedAuthors(n_out.d["authors"])
    /\ n_out.d["citedby"].t = "int"
    /\ (n_raw["citations"].t \in {"absent", "none"} => n_out.d["citedby"] = VInt(0))

\* C7 as claimed: normalizing the normalized record again gives the same record
C7_Idempotent == n_pc = "again" => n_again = n_out

\* C7 as amended: normalizing the normalized record again returns, keeps title,
\* authors, abstract, url and paper_id, and resets year to '', venue to the
\* fallback source and citedby to 0
C7_IdempotentButYearVenueCitedby ==
  n_pc = "again" =>
    /\ ~n_again.raised
    /\ n_again.d = [n_out.d EXCEPT !["year"] = VStr(<< >>),
                                   !["venue"] = VStr(n_source),
                                   !["citedby"] = VInt(0)]

\* a record normalized twice whose year, venue and citedby were all reset
C7_Witness ==
  /\ n_pc = "again"
  /\ n_out.d["year"] = VStr(<< "2", "0", "2", "3" >>)
  /\ n_out.d["venue"] = VStr(<< "Q" >>)
  /\ n_out.d["citedby"] = VInt(3)
  /\ n_out.d["title"] = VStr(<< "Q", "e" >>)
  /\ n_again.d["title"] = VStr(<< "Q", "e" >>)
  /\ n_again.d["year"] = VStr(<< >>)

(***************************************************************************)
(* Properties of an aggregation run (checked under Spec)                   *)
(***************************************************************************)

Failed(result) == result.kind # "list"

\* the adapters' results with every failed call replaced by an empty list
Zeroed(a) == [i \in DOMAIN a |-> IF Failed(a[i]) THEN Result("list", << >>) ELSE a[i]]

\* the client's fingerprint of a merged record
HashOf(x) == generate_paper_hash(x["title"].s, x["authors"].l)

\* self.seen_papers as it was when the client's run began: every merged record
\* added one fingerprint that was not there
SeenAtStart == seen_papers \ {HashOf(all_papers[i]) : i \in 1..Len(all_papers)}

\* the run has returned something other than the rejection of its platforms
Finished == pc = "done" /\ response # Error400

\* C1: a run in which some platforms' adapter calls fail returns exactly what
\* it returns when each of those platforms gives an empty list
C1_FailureIsolation ==
  Finished =>
    /\ side = "client" =>
         response = ClientOutcome(SeenAtStart, platforms, Zeroed(adapter), total)
    /\ side = "server" =>
         response = ServerOutcome(platforms, Zeroed(adapter), total)

\* a run that returned records although one of its platforms failed
C1_Witness ==
  /\ Finished
  /\ \E i \in 1..Len(adapter) : Failed(adapter[i])
  /\ response.status = "ok"
  /\ response.papers # << >>

\* same normalized title and same first two authors
SameFingerprintFields(x, y) ==
  /\ AlnumLower(x["title"].s) = AlnumLower(y["title"].s)
  /\ FirstTwo(x["authors"].l) = FirstTwo(y["authors"].l)

\* C2: of the records with the same normalized title and the same first two
\* authors, one is in the merged result of a run, not two
C2_DedupByFingerprint ==
  (pc = "done" /\ response.status = "ok") =>
    \A i, j \in 1..Len(all_papers) :
      i < j => ~SameFingerprintFields(all_papers[i], all_papers[j])

\* the title of a raw record is absent, null, empty or blank
EmptyTitle(item) ==
  /\ item.isdict
  /\ LET title == Get(item.d, "title", VNone)
     IN  title.t = "none" \/ (title.t = "str" /\ Strip(title.s) = << >>)

Merging == pc \in {"client_papers", "server_papers"} /\ papers # << >>

\* C3: merging a record whose title is empty adds nothing to the seen set
\* and nothing to the merged records, and no returned record has an empty title
C3_EmptyTitleRejected ==
  /\ [][(Merging /\ EmptyTitle(Head(papers)))
          => (seen_papers' = seen_papers /\ all_papers' = all_papers)]_vars
  /\ [](\A i \in 1..Len(response.papers) : response.papers[i]["title"].s # << >>)

\* a run that returned records while one platform gave a record without title
C3_Witness ==
  /\ pc = "done"
  /\ response.status = "ok"
  /\ response.papers # << >>
  /\ \E i \in 1..Len(adapter) : \E k \in 1..Len(adapter[i].recs) :
       adapter[i].kind = "list" /\ EmptyTitle(adapter[i].recs[k])

\* the earlier record's year is not older than the later one's, a record
\* without year coming after every record with one
YearNotOlder(x, y) ==
  \/ y["year"].s = << >>
  \/ x["year"].s # << >> /\ ToInt(x["year"].s) >= ToInt(y["year"].s)

\* C4: the output has at most total_target records and is ordered by year,
\* newest first, records without year last
C4_RankedAndLimited ==
  (pc = "done" /\ response.status = "ok") =>
    /\ Len(response.papers) <= total
    /\ \A k \in 1..(Len(response.papers) - 1) :
         YearNotOlder(response.papers[k], response.papers[k + 1])

\* C8: the seen set is empty when a run begins, so a client's run returns
\* what a first run with the same inputs returns
C8_SeenScopedToRun ==
  (pc = "done" /\ side = "client") =>
    response = ClientOutcome({}, platforms, adapter, total)

\* C9: whatever the order in which the platform calls complete, the response
\* is that of merging the platforms' results one by one in the requested order
C9_CompletionOrderIrrelevant ==
  (Finished /\ side = "server") =>
    response = ServerOutcome(platforms, adapter, total)

\* a request for which both platforms gave the same paper, the second call
\* completed first, and the first platform's copy is the one returned
C9_Witness ==
  /\ Finished /\ side = "server"
  /\ Len(arrived) = 2
  /\ arrived[1].task = 2
  /\ adapter[1] = Result("list", << PaperQe >>)
  /\ adapter[2] = Result("list", << PaperQe >>)
  /\ Len(response.papers) = 1
  /\ response.papers[1]["venue"] = VStr(arxiv)

\* a non-mapping record, a null or missing title, a null entry in authors
Malformed(item) ==
  \/ ~item.isdict
  \/ Get(item.d, "title", VNone).t = "none"
  \/ LET authors == Get(item.d, "authors", VNone)
     IN  authors.t = "list" /\ \E i \in 1..Len(authors.l) : authors.l[i].t # "str"

\* the adapters' results without their malformed records
Cleaned(a) ==
  [i \in DOMAIN a |-> Result(a[i].kind, SelectSeq(a[i].recs, LAMBDA r : ~Malformed(r)))]

\* C10: a run returns without error, and returns what it returns when the
\* malformed records are left out of the adapters' results
C10_MalformedAbsorbed ==
  Finished =>
    /\ response.status = "ok"
    /\ side = "client" =>
         response = ClientOutcome(SeenAtStart, platforms, Cleaned(adapter), total)
    /\ side = "server" =>
         response = ServerOutcome(platforms, Cleaned(adapter), total)

====
